---- MODULE Spec2Model ----
(***************************************************************************)
(* The streaming ingestion pipeline of the Python indexer processors:      *)
(* utils/worker.py (get_grpc_stream, producer, consumer_impl, WorkerThread,*)
(* IndexerProcessorServer.run), utils/transactions_processor.py            *)
(* (update_last_processed_version, validate_grpc_chain_id) and             *)
(* utils/config.py (get_starting_version).                                 *)
(*                                                                         *)
(* One process runs a producer thread, a consumer thread and, per round,   *)
(* one worker thread per collected batch.  The checkpoint row              *)
(* (next_versions_to_process.next_version) is the only durable state: it   *)
(* survives a crash and a restart.                                         *)
(***************************************************************************)
EXTENDS Integers, Sequences, FiniteSets, TLC

(***************************************************************************)
(* Bounds of the model.                                                    *)
(***************************************************************************)
\* Highest transaction version the upstream chain holds.
MaxVersion == 2
\* Largest number of transactions the server packs into one response.
MaxBatchLen == 2
\* Transport / deserialize errors injected per run.
MaxErrors == 1
\* Transport errors of a run of SpecErr: one more than RECONNECTION_MAX_RETRIES.
MaxErrorRun == 6
\* Primary keys of a table of the NFT marketplace v2 processor.
MaxKeys == 2
\* Statements committed in a behaviour of SpecNft.
MaxStatements == 3
\* Responses of a run of SpecUnordered.
MaxUnordered == 2
\* Processes started over one behaviour (first start plus restarts).
MaxRuns == 2
\* Largest value reconnection_retries is followed to once the stream has
\* nothing left to deliver.
MaxReconnects == 6
\* Largest value reconnection_retries is followed to while the stream still
\* has transactions to deliver.
MaxEarlyReconnects == 1
\* Worker threads per round (num_concurrent_processing_tasks is 10 in
\* worker.py:510; consumer_impl takes it as a parameter).
MaxTasks == 2
\* Capacity of the fetcher queue (FETCHER_QUEUE_SIZE is 50 in worker.py:37).
FETCHER_QUEUE_SIZE == 2

(***************************************************************************)
(* Program constants.                                                      *)
(***************************************************************************)
\* examples/processor.py 106: the checkpoint interval of transactions that
\* parse to nothing.
CheckpointEvery == 1000
RECONNECTION_MAX_RETRIES == 5

\* Python's None.
NoneV == -1
\* chain_id of the configuration, and the chain ids a server may answer with.
ConfigChainId == 1

Versions == 0..MaxVersion
OptVersion == {NoneV} \cup Versions

\* The settings a process is started with:
\* <<starting_version_backfill, starting_version_default, whether the
\* checkpoint row can be read>> and <<ending_version, chain id of the
\* server, num_concurrent_processing_tasks, highest version of the chain,
\* numbers of transactions the server packs into a response>>.
\* The default and the failed read are tried where get_starting_version
\* looks at them (no backfill); an ending_version of 0 and a server of
\* another chain are tried with the largest number of tasks.
StartSettings ==
  {<<0, NoneV, TRUE>>} \cup {<<NoneV, d, ok>> : d \in {NoneV, 0}, ok \in BOOLEAN}
ServerSettings ==
  ({NoneV, MaxVersion - 1} \X {ConfigChainId} \X (1..MaxTasks)
      \X {MaxVersion} \X {1..MaxBatchLen})
    \cup {<<0, ConfigChainId, MaxTasks, MaxVersion, 1..MaxBatchLen>>,
          <<NoneV, 2, MaxTasks, MaxVersion, 1..MaxBatchLen>>}
\* The server of the end-to-end scenario: responses of 1000 transactions,
\* versions 0 to 2999, two tasks.  It is offered to the last process of a
\* behaviour when that process starts on an empty checkpoint table.
ScenarioSettings == {<<NoneV, ConfigChainId, 2, 2999, {1000}>>}

Min2(a, b) == IF a <= b THEN a ELSE b

\* What the producer's loop did last: kind is "none", "receive", "put",
\* "error", "end_reached" (stream ended past the ending version),
\* "reconnect" (stream ended, stream reopened) or "fatal" (stream ended,
\* os._exit(1) at 279); recent is the outcome of the comparison at 268,
\* elapsed_secs < MIN_SEC_BETWEEN_GRPC_RECONNECTS, FALSE where it is not made.
Event(kind, recent) == [kind |-> kind, recent |-> recent]
NoEvent == Event("none", FALSE)

NoBatch == [start |-> NoneV, end |-> NoneV, chain |-> NoneV]
Batch(s, e, c) == [start |-> s, end |-> e, chain |-> c]

VARIABLES
  \* the process
  status,                 \* "boot", "running", "exit0", "exit1", "killed"
  runs,                   \* processes started so far
  \* durable state
  store,                  \* next_versions_to_process.next_version, NoneV: no row
  \* configuration of the run and the server it talks to
  starting_version,
  ending_version,
  num_concurrent_processing_tasks,
  server_chain_id,
  chain_head,             \* highest version the server holds
  response_lens,          \* sizes of the responses the server sends
  starting_version_backfill,
  db_read_ok,             \* whether get_starting_version could read the row
  start_store,            \* the row as it was when the run started
  \* producer thread
  ppc,                    \* "fetch", "put", "drain", "done"
  next_version_to_fetch,
  reconnection_retries,
  last_reconnection_time, \* FALSE: None, TRUE: set
  response,               \* the response received and not yet put
  stream_start,           \* starting_version of the open response_stream
  stream_next,            \* next version the open response_stream delivers
  stream_last,            \* last version the open response_stream delivers
  q,
  \* consumer thread
  cpc,                    \* "top", "get", "spawn", "join", "dead"
  task_index,
  batch_start_version,
  transaction_batches,
  processor_threads,      \* per batch: "running", "ok", "exc"
  \* metrics
  processed_counter,
  latest_gauge,
  \* history of the run
  put_log,                \* batches put on the queue, in order
  dispatch_log,           \* batches handed to a WorkerThread, in order
  err_count,              \* transport errors so far
  last_received_end,      \* end version of the last response, NoneV: none
  producer_event,         \* what the producer's loop did last
  skipped,                \* cursors the error handler has stepped over
  \* get_starting_version on its own
  gsv_in,
  gsv_out,
  \* the current_* tables of the NFT marketplace v2 processor on their own
  nft_rows,               \* the row stored under each primary key
  nft_written,            \* per primary key, the rows committed statements held
  nft_last,               \* the statement committed last
  nft_count,              \* statements committed
  \* the single-threaded example processors on their own
  ex_script,              \* which script is deployed, "none": not yet chosen
  ex_has_rows,            \* per version: parse(transaction) is not None
  ex_status,              \* "boot", "running", "raised", "killed"
  ex_runs,                \* processes started
  ex_next,                \* stored next_version, NoneV: no row
  ex_rows,                \* versions whose parsed rows are committed
  ex_cur,                 \* current_transaction_version
  ex_override,            \* the run was started with a starting version set
  ex_last                 \* what the loop did last, and for which version

procVars == <<status, runs>>
cfgVars == <<starting_version, ending_version, num_concurrent_processing_tasks,
             server_chain_id, chain_head, response_lens,
             starting_version_backfill, db_read_ok, start_store>>
prodVars == <<ppc, next_version_to_fetch, reconnection_retries,
              last_reconnection_time, response, stream_start, stream_next,
              stream_last>>
consVars == <<cpc, task_index, batch_start_version, transaction_batches,
              processor_threads>>
metricVars == <<processed_counter, latest_gauge>>
histVars == <<put_log, dispatch_log, err_count, last_received_end,
              producer_event, skipped>>
gsvVars == <<gsv_in, gsv_out>>
nftVars == <<nft_rows, nft_written, nft_last, nft_count>>
exVars == <<ex_script, ex_has_rows, ex_status, ex_runs, ex_next, ex_rows,
            ex_cur, ex_override, ex_last>>
sideVars == <<gsvVars, nftVars, exVars>>
vars == <<procVars, store, cfgVars, prodVars, q, consVars, metricVars,
          histVars, sideVars>>

(***************************************************************************)
(* utils/config.py: Config.get_starting_version.                           *)
(* stored is the row's next_version, NoneV when there is no row; read_ok   *)
(* is FALSE when the session raised (the bare except swallows it).         *)
(***************************************************************************)
\* The default taken before the stored value.
get_starting_version_DefaultFirst(backfill, stored, read_ok, default) ==
  LET next_version_to_process == IF read_ok THEN stored ELSE NoneV
  IN  IF backfill # NoneV THEN backfill
      ELSE IF default # NoneV THEN default
      ELSE IF next_version_to_process # NoneV THEN next_version_to_process
      ELSE 0

\* The settings tested for truth instead of against None: a 0 counts as unset.
get_starting_version_Truthy(backfill, stored, read_ok, default) ==
  LET next_version_to_process == IF read_ok THEN stored ELSE NoneV
  IN  IF backfill # NoneV /\ backfill # 0 THEN backfill
      ELSE IF next_version_to_process # NoneV /\ next_version_to_process # 0
           THEN next_version_to_process
      ELSE IF default # NoneV /\ default # 0 THEN default
      ELSE 0

get_starting_version(backfill, stored, read_ok, default) ==
  LET next_version_to_process == IF read_ok THEN stored ELSE NoneV
  IN  IF backfill # NoneV THEN backfill
      ELSE IF next_version_to_process # NoneV THEN next_version_to_process
      ELSE IF default # NoneV THEN default
      ELSE 0

(***************************************************************************)
(* utils/worker.py: get_grpc_stream.                                       *)
(***************************************************************************)
\* A setting tested against None only: a 0 counts as set.
Truthy_NotNone(x) == x # NoneV

\* Python truthiness of an Optional[int]: None and 0 are false.
Truthy(x) == x # NoneV /\ x # 0

\* transactions_count of the request; NoneV: the field is left unset.
TransactionsCount(start, ending) ==
  IF Truthy(ending) THEN ending - start + 1 ELSE NoneV

\* GetTransactionsRequest refuses a negative uint64: the except branch of
\* get_grpc_stream ends the process.
StreamRefused(start, ending) ==
  Truthy(ending) /\ TransactionsCount(start, ending) < 0

\* Last version a stream delivers: the server sends transactions_count
\* transactions when the count is set, and what the chain holds otherwise.
StreamLast(ending, head) ==
  IF Truthy(ending) THEN Min2(ending, head) ELSE head

(***************************************************************************)
(* processors/nft_marketplace_v2/processor.py 1036-1209: the four current_ *)
(* tables.  A row is kept as its last_transaction_version and is_deleted,   *)
(* the other columns being written along with them.                        *)
(***************************************************************************)
NftTables ==
  {"current_nft_marketplace_listings", "current_nft_marketplace_token_offers",
   "current_nft_marketplace_collection_offers",
   "current_nft_marketplace_auctions"}
NftKeys == NftTables \X (1..MaxKeys)
NftRow(version, is_deleted) ==
  [last_transaction_version |-> version, is_deleted |-> is_deleted]
NoRow == NftRow(NoneV, FALSE)
NoStatement == [table |-> "", pks |-> {}, row |-> NoRow]

InitNft ==
  /\ nft_rows = [k \in NftKeys |-> NoRow]
  /\ nft_written = [k \in NftKeys |-> {}]
  /\ nft_last = NoStatement
  /\ nft_count = 0

(***************************************************************************)
(* The single-threaded example processors: src/python/processor.py,        *)
(* processors/examples/processor.py and                                    *)
(* processors/example_event_processor/processor.py.                        *)
(***************************************************************************)
ExScripts == {"processor", "examples", "example_event_processor"}
ExStep(kind, version) == [kind |-> kind, version |-> version]

\* Nothing deployed, empty tables.
InitExTables ==
  /\ ex_script = "none"
  /\ ex_status = "boot"
  /\ ex_runs = 0
  /\ ex_next = NoneV
  /\ ex_rows = {}
  /\ ex_cur = 0
  /\ ex_override = FALSE
  /\ ex_last = ExStep("none", NoneV)

InitEx ==
  /\ InitExTables
  /\ ex_has_rows = [v \in Versions |-> FALSE]

(***************************************************************************)
(* State after construction: no process has been started, the checkpoint   *)
(* table is empty.                                                         *)
(***************************************************************************)
InitRun ==
  /\ status = "boot"
  /\ runs = 0
  /\ store = NoneV
  /\ starting_version = 0
  /\ ending_version = NoneV
  /\ num_concurrent_processing_tasks = 1
  /\ server_chain_id = ConfigChainId
  /\ chain_head = 0
  /\ response_lens = {1}
  /\ starting_version_backfill = NoneV
  /\ db_read_ok = TRUE
  /\ start_store = NoneV
  /\ ppc = "fetch"
  /\ next_version_to_fetch = 0
  /\ reconnection_retries = 0
  /\ last_reconnection_time = FALSE
  /\ response = NoBatch
  /\ stream_start = 0
  /\ stream_next = 0
  /\ stream_last = 0
  /\ q = <<>>
  /\ cpc = "top"
  /\ task_index = 0
  /\ batch_start_version = 0
  /\ transaction_batches = <<>>
  /\ processor_threads = <<>>
  /\ processed_counter = 0
  /\ latest_gauge = NoneV
  /\ put_log = <<>>
  /\ dispatch_log = <<>>
  /\ err_count = 0
  /\ last_received_end = NoneV
  /\ producer_event = NoEvent
  /\ skipped = {}

Init ==
  /\ InitRun
  /\ gsv_in = <<NoneV, NoneV, TRUE, NoneV>>
  /\ gsv_out = NoneV
  /\ InitNft
  /\ InitEx

\* The memory of a process that is gone: only the checkpoint row is kept.
ForgetRun ==
  /\ starting_version' = 0
  /\ ending_version' = NoneV
  /\ num_concurrent_processing_tasks' = 1
  /\ server_chain_id' = ConfigChainId
  /\ chain_head' = 0
  /\ response_lens' = {1}
  /\ starting_version_backfill' = NoneV
  /\ db_read_ok' = TRUE
  /\ start_store' = NoneV
  /\ ppc' = "fetch"
  /\ next_version_to_fetch' = 0
  /\ reconnection_retries' = 0
  /\ last_reconnection_time' = FALSE
  /\ response' = NoBatch
  /\ stream_start' = 0
  /\ stream_next' = 0
  /\ stream_last' = 0
  /\ q' = <<>>
  /\ cpc' = "top"
  /\ task_index' = 0
  /\ batch_start_version' = 0
  /\ transaction_batches' = <<>>
  /\ processor_threads' = <<>>
  /\ processed_counter' = 0
  /\ latest_gauge' = NoneV
  /\ put_log' = <<>>
  /\ dispatch_log' = <<>>
  /\ err_count' = 0
  /\ last_received_end' = NoneV
  /\ producer_event' = NoEvent
  /\ skipped' = {}

(***************************************************************************)
(* worker.py 601-676, IndexerProcessorServer.run, with the producer's      *)
(* prologue (133-145): resolve the starting version, create the queue,     *)
(* start the producer, which opens the first stream at starting_version,   *)
(* and the consumer.  backfill, default, ending and n are the settings of  *)
(* the configuration, read_ok whether the checkpoint row could be read,    *)
(* chain, head and lens describe the server.                               *)
(***************************************************************************)
Start(backfill, default, read_ok, ending, chain, n, head, lens) ==
  LET sv == get_starting_version(backfill, store, read_ok, default) IN
  /\ status \in {"boot", "killed"}
  /\ runs < MaxRuns
  /\ runs' = runs + 1
  /\ status' = IF StreamRefused(sv, ending) THEN "exit1" ELSE "running"
  /\ starting_version' = sv
  /\ ending_version' = ending
  /\ num_concurrent_processing_tasks' = n
  /\ server_chain_id' = chain
  /\ chain_head' = head
  /\ response_lens' = lens
  /\ starting_version_backfill' = backfill
  /\ db_read_ok' = read_ok
  /\ start_store' = store
  /\ ppc' = "fetch"
  /\ next_version_to_fetch' = sv
  /\ reconnection_retries' = 0
  /\ last_reconnection_time' = FALSE
  /\ response' = NoBatch
  /\ stream_start' = sv
  /\ stream_next' = sv
  /\ stream_last' = StreamLast(ending, head)
  /\ q' = <<>>
  /\ cpc' = "top"
  /\ task_index' = 0
  /\ batch_start_version' = sv
  /\ transaction_batches' = <<>>
  /\ processor_threads' = <<>>
  /\ processed_counter' = 0
  /\ latest_gauge' = NoneV
  /\ put_log' = <<>>
  /\ dispatch_log' = <<>>
  /\ err_count' = 0
  /\ last_received_end' = NoneV
  /\ producer_event' = NoEvent
  /\ skipped' = {}
  /\ UNCHANGED <<store, sideVars>>

\* The process is killed from outside (a crash, a node restart).
Crash ==
  /\ status = "running"
  /\ status' = "killed"
  /\ ForgetRun
  /\ UNCHANGED <<runs, store, sideVars>>

(***************************************************************************)
(* worker.py 158-302: producer.                                            *)
(***************************************************************************)
\* 224-226
ReachedEndingVersion(nvf, ending) ==
  IF Truthy(ending) THEN nvf > ending ELSE FALSE

\* 164-168: the response an honest server sends next on the open stream.
NextResponse(len) ==
  Batch(stream_next, Min2(stream_next + len - 1, stream_last), server_chain_id)

\* 162-185: next(response_stream) returns a response.
ProducerReceive(len) ==
  /\ status = "running"
  /\ ppc = "fetch"
  /\ stream_next <= stream_last
  /\ LET r == NextResponse(len) IN
       /\ response' = r
       /\ next_version_to_fetch' = r.end + 1
       /\ stream_next' = r.end + 1
       /\ last_received_end' = r.end
  /\ reconnection_retries' = 0
  /\ ppc' = "put"
  /\ producer_event' = Event("receive", FALSE)
  /\ UNCHANGED <<procVars, store, cfgVars, last_reconnection_time, stream_start,
                 stream_last, q, consVars, metricVars, put_log, dispatch_log,
                 err_count, skipped, sideVars>>

\* 162-185: next(response_stream) returns a response holding the versions
\* first..last, whatever the stream was opened at: the producer takes the
\* versions from the response and checks them against nothing.
ProducerReceiveAny(first, last) ==
  /\ status = "running"
  /\ ppc = "fetch"
  /\ first <= last
  /\ Len(put_log) < MaxUnordered
  /\ response' = Batch(first, last, server_chain_id)
  /\ next_version_to_fetch' = last + 1
  /\ stream_next' = last + 1
  /\ last_received_end' = last
  /\ reconnection_retries' = 0
  /\ ppc' = "put"
  /\ producer_event' = Event("receive", FALSE)
  /\ UNCHANGED <<procVars, store, cfgVars, last_reconnection_time, stream_start,
                 stream_last, q, consVars, metricVars, put_log, dispatch_log,
                 err_count, skipped, sideVars>>

\* A queue that takes one item more than its size.
QueueHasRoom_OffByOne(queue) == Len(queue) <= FETCHER_QUEUE_SIZE

\* queue.Queue.put on a bounded queue: blocks while the queue is full.
QueueHasRoom(queue) == Len(queue) < FETCHER_QUEUE_SIZE

\* 186-188 and 223-262: q.put, then the end-of-stream check.
ProducerPut ==
  /\ status = "running"
  /\ ppc = "put"
  /\ QueueHasRoom(q)
  /\ q' = Append(q, response)
  /\ put_log' = Append(put_log, response)
  /\ response' = NoBatch
  /\ producer_event' = Event("put", FALSE)
  /\ ppc' = IF ReachedEndingVersion(next_version_to_fetch, ending_version)
            THEN "drain" ELSE "fetch"
  /\ UNCHANGED <<procVars, store, cfgVars, next_version_to_fetch,
                 reconnection_retries, last_reconnection_time, stream_start,
                 stream_next, stream_last, consVars, metricVars, dispatch_log,
                 err_count, last_received_end, skipped, sideVars>>

\* The cursor left where it is: the same version is asked for again.
CursorAfterError_Retry(nvf) == nvf

\* The cursor advanced by two.
CursorAfterError_SkipTwo(nvf) == nvf + 2

\* 212: the cursor after a datastream error.
CursorAfterError(nvf) == nvf + 1

\* 198-221 and 223-262: next(response_stream) raises (transport or
\* deserialize error), or the response holds no transaction (IndexError at
\* 164, after 163 has reset the retries).
\* limit bounds the errors of a run.
ProducerErrorWithin(limit, empty) ==
  LET nvf == CursorAfterError(next_version_to_fetch) IN
  /\ status = "running"
  /\ ppc = "fetch"
  /\ err_count < limit
  /\ err_count' = err_count + 1
  /\ producer_event' = Event("error", FALSE)
  /\ skipped' = skipped \cup {next_version_to_fetch}
  /\ next_version_to_fetch' = nvf
  /\ reconnection_retries' = IF empty THEN 0 ELSE reconnection_retries
  /\ stream_start' = nvf
  /\ stream_next' = nvf
  /\ stream_last' = StreamLast(ending_version, chain_head)
  /\ IF StreamRefused(nvf, ending_version)
     THEN status' = "exit1" /\ ppc' = ppc
     ELSE /\ status' = status
          /\ ppc' = IF ReachedEndingVersion(nvf, ending_version)
                    THEN "drain" ELSE "fetch"
  /\ UNCHANGED <<runs, store, cfgVars, last_reconnection_time, response, q,
                 consVars, metricVars, put_log, dispatch_log,
                 last_received_end, sideVars>>

\* The retries compared with > instead of >=: one reconnection more.
RecentlyReconnected_OneMore(retries, last_time, recent) ==
  last_time /\ retries > RECONNECTION_MAX_RETRIES /\ recent

\* 264-269: the test that ends the process instead of reconnecting.
RecentlyReconnected(retries, last_time, recent) ==
  last_time /\ retries >= RECONNECTION_MAX_RETRIES /\ recent

ProducerError(empty) == ProducerErrorWithin(MaxErrors, empty)

\* The reconnection made at the version the ended stream was opened at.
ReconnectVersion_SameStream == stream_start

\* The reconnection made at the version the process started from.
ReconnectVersion_Initial == starting_version

\* 299: the version the producer reconnects at after the stream ended.
ReconnectVersion == next_version_to_fetch

\* 189-197 and 223-302: next(response_stream) raises StopIteration.  recent
\* says whether less than MIN_SEC_BETWEEN_GRPC_RECONNECTS seconds have passed
\* since the last reconnection.
ProducerStreamEnd(recent) ==
  /\ status = "running"
  /\ ppc = "fetch"
  /\ IF ReachedEndingVersion(next_version_to_fetch, ending_version)
     THEN /\ ppc' = "drain"
          /\ producer_event' = Event("end_reached", FALSE)
          /\ UNCHANGED <<status, reconnection_retries, last_reconnection_time,
                         stream_start, stream_next, stream_last>>
     ELSE IF RecentlyReconnected(reconnection_retries,
                                 last_reconnection_time, recent)
     THEN /\ status' = "exit1"
          /\ producer_event' = Event("fatal", TRUE)
          /\ UNCHANGED <<ppc, reconnection_retries, last_reconnection_time,
                         stream_start, stream_next, stream_last>>
     ELSE /\ reconnection_retries <
               (IF stream_next > stream_last THEN MaxReconnects
                                             ELSE MaxEarlyReconnects)
          /\ reconnection_retries' = reconnection_retries + 1
          /\ producer_event' = Event("reconnect", last_reconnection_time /\ recent)
          /\ last_reconnection_time' = TRUE
          /\ stream_start' = ReconnectVersion
          /\ stream_next' = ReconnectVersion
          /\ stream_last' = StreamLast(ending_version, chain_head)
          /\ status' = IF StreamRefused(ReconnectVersion, ending_version)
                       THEN "exit1" ELSE status
          /\ ppc' = ppc
  /\ UNCHANGED <<runs, store, cfgVars, next_version_to_fetch, response, q,
                 consVars, metricVars, put_log, dispatch_log, err_count,
                 last_received_end, skipped, sideVars>>

\* 239-258: the busy wait for the queue to be empty, then the thread ends.
ProducerDrain ==
  /\ status = "running"
  /\ ppc = "drain"
  /\ Len(q) = 0
  /\ ppc' = "done"
  /\ UNCHANGED <<procVars, store, cfgVars, next_version_to_fetch,
                 reconnection_retries, last_reconnection_time, response,
                 stream_start, stream_next, stream_last, q, consVars,
                 metricVars, histVars, sideVars>>

(***************************************************************************)
(* worker.py 333-470: consumer_impl.                                       *)
(***************************************************************************)
\* 345-362: the liveness check of the producer thread, then a new round.
ConsumerCheckAlive ==
  /\ status = "running"
  /\ cpc = "top"
  /\ IF ppc = "done"
     THEN /\ status' = "exit0"
          /\ UNCHANGED <<cpc, task_index, transaction_batches>>
     ELSE /\ status' = status
          /\ cpc' = "get"
          /\ task_index' = 0
          /\ transaction_batches' = <<>>
  /\ UNCHANGED <<runs, store, cfgVars, prodVars, q, batch_start_version,
                 processor_threads, metricVars, histVars, sideVars>>

\* The loop run once too often: range(num_concurrent_processing_tasks + 1).
AfterTask_OneMore(i) ==
  IF i = num_concurrent_processing_tasks THEN "spawn" ELSE "get"

\* 363-373: where the loop over range(num_concurrent_processing_tasks) goes
\* after iteration i.
AfterTask(i) ==
  IF i + 1 = num_concurrent_processing_tasks THEN "spawn" ELSE "get"

\* The list replaced by the item instead of extended.
Collect_Overwrite(batches, item) == <<item>>

\* A batch that does not follow the one before it left out of the round.
Collect_DropGap(batches, item) ==
  IF batches # <<>> /\ item.start # batches[Len(batches)].end + 1
  THEN batches
  ELSE Append(batches, item)

\* 391
Collect(batches, item) == Append(batches, item)

\* 364-366 and 376-391: the first item of a round, q.get() blocks for it.
ConsumerGetFirst ==
  /\ status = "running"
  /\ cpc = "get"
  /\ task_index = 0
  /\ Len(q) > 0
  /\ transaction_batches' = Collect(transaction_batches, Head(q))
  /\ q' = Tail(q)
  /\ task_index' = task_index + 1
  /\ cpc' = AfterTask(task_index)
  /\ UNCHANGED <<procVars, store, cfgVars, prodVars, batch_start_version,
                 processor_threads, metricVars, histVars, sideVars>>

\* 367-391: a later item of the round, q.get_nowait(); queue.Empty skips
\* the iteration.
ConsumerGetNoWait ==
  /\ status = "running"
  /\ cpc = "get"
  /\ task_index > 0
  /\ IF Len(q) > 0
     THEN /\ transaction_batches' = Collect(transaction_batches, Head(q))
          /\ q' = Tail(q)
     ELSE UNCHANGED <<transaction_batches, q>>
  /\ task_index' = task_index + 1
  /\ cpc' = AfterTask(task_index)
  /\ UNCHANGED <<procVars, store, cfgVars, prodVars, batch_start_version,
                 processor_threads, metricVars, histVars, sideVars>>

\* 393-399: one WorkerThread per collected batch, started in batch order.
ConsumerSpawn ==
  /\ status = "running"
  /\ cpc = "spawn"
  /\ processor_threads' = [i \in 1..Len(transaction_batches) |-> "running"]
  /\ dispatch_log' = dispatch_log \o transaction_batches
  /\ cpc' = "join"
  /\ UNCHANGED <<procVars, store, cfgVars, prodVars, q, task_index,
                 batch_start_version, transaction_batches, metricVars, put_log,
                 err_count, last_received_end, producer_event,
                 skipped, sideVars>>

(***************************************************************************)
(* worker.py 532-599: WorkerThread.run.  The processors return             *)
(* ProcessingResult(start_version, end_version) of the batch they were     *)
(* given, so the result of thread i is the range of transaction_batches[i].*)
(***************************************************************************)
\* 536-594: process_transactions returns.
WorkerSucceed(i) ==
  /\ status = "running"
  /\ cpc = "join"
  /\ i \in DOMAIN processor_threads
  /\ processor_threads[i] = "running"
  /\ processor_threads' = [processor_threads EXCEPT ![i] = "ok"]
  /\ UNCHANGED <<procVars, store, cfgVars, prodVars, q, cpc, task_index,
                 batch_start_version, transaction_batches, metricVars,
                 histVars, sideVars>>

\* A thread that calls process_transactions again after it raised.
WorkerRaise_Retry(i) ==
  /\ status = "running"
  /\ cpc = "join"
  /\ i \in DOMAIN processor_threads
  /\ processor_threads[i] \in {"running", "exc"}
  /\ processor_threads' =
       [processor_threads EXCEPT
          ![i] = IF processor_threads[i] = "running" THEN "exc" ELSE "running"]
  /\ UNCHANGED <<procVars, store, cfgVars, prodVars, q, cpc, task_index,
                 batch_start_version, transaction_batches, metricVars,
                 histVars, sideVars>>

\* 595-599: process_transactions raises; the exception is kept on the thread.
WorkerRaise(i) ==
  /\ status = "running"
  /\ cpc = "join"
  /\ i \in DOMAIN processor_threads
  /\ processor_threads[i] = "running"
  /\ processor_threads' = [processor_threads EXCEPT ![i] = "exc"]
  /\ UNCHANGED <<procVars, store, cfgVars, prodVars, q, cpc, task_index,
                 batch_start_version, transaction_batches, metricVars,
                 histVars, sideVars>>

\* Only the first thread of the round joined.
AllJoined_FirstOnly == processor_threads[1] # "running"

\* 401-402: every thread of the round has been joined.
AllJoined == \A i \in DOMAIN processor_threads : processor_threads[i] # "running"

\* Only the first thread of the round looked at.
AnyException_FirstThreadOnly ==
  Len(processor_threads) > 0 /\ processor_threads[1] = "exc"

\* 407-413
AnyException == \E i \in DOMAIN processor_threads : processor_threads[i] = "exc"

\* 440-441: the round's range, from the results in thread order.
processed_start_version == transaction_batches[1].start

\* The end taken from the first result.
processed_end_version_FirstResult == transaction_batches[1].end

processed_end_version == transaction_batches[Len(transaction_batches)].end

(***************************************************************************)
(* transactions_processor.py 220-227: update_last_processed_version, a     *)
(* session.merge of the row: the value the row holds afterwards.           *)
(***************************************************************************)
update_last_processed_version(stored, last_processed_version) ==
  last_processed_version + 1

(***************************************************************************)
(* transactions_processor.py 230-239: validate_grpc_chain_id.  Only the    *)
(* single-threaded TransactionsProcessor.run (line 154) calls it; producer *)
(* and consumer_impl carry chain_id along and never compare it (worker.py  *)
(* 168-169, 375).                                                          *)
(***************************************************************************)
validate_grpc_chain_id(chain_id) == chain_id = ConfigChainId

\* 401-450: join, the exception check, the checkpoint write and the metrics.
\* write_ok is FALSE when the checkpoint write raises: the exception leaves
\* consumer_impl and ends the consumer thread.
ConsumerJoin(write_ok) ==
  /\ status = "running"
  /\ cpc = "join"
  /\ AllJoined
  /\ IF AnyException
     THEN /\ status' = "exit1"
          /\ UNCHANGED <<store, cpc, batch_start_version, transaction_batches,
                         processor_threads, metricVars>>
     ELSE /\ status' = status
          /\ batch_start_version' = processed_end_version + 1
          /\ IF write_ok
             THEN /\ store' = update_last_processed_version(
                                 store, processed_end_version)
                  /\ processed_counter' = processed_counter
                        + (processed_end_version - processed_start_version + 1)
                  /\ latest_gauge' = processed_end_version
                  /\ cpc' = "top"
                  /\ transaction_batches' = <<>>
                  /\ processor_threads' = <<>>
             ELSE /\ cpc' = "dead"
                  /\ UNCHANGED <<store, transaction_batches, processor_threads,
                                 metricVars>>
  /\ UNCHANGED <<runs, cfgVars, prodVars, q, task_index, histVars, sideVars>>

\* 675-676: the main thread joins both threads and run() returns; the
\* consumer only ever ends through an exception.
MainJoin ==
  /\ status = "running"
  /\ ppc = "done"
  /\ cpc = "dead"
  /\ status' = "exit0"
  /\ UNCHANGED <<runs, store, cfgVars, prodVars, q, consVars, metricVars,
                 histVars, sideVars>>

Next ==
  \/ \E s \in StartSettings,
        c \in ServerSettings \cup
                (IF store = NoneV /\ runs + 1 = MaxRuns THEN ScenarioSettings
                                                      ELSE {}) :
       Start(s[1], s[2], s[3], c[1], c[2], c[3], c[4], c[5])
  \/ Crash
  \/ \E len \in response_lens : ProducerReceive(len)
  \/ ProducerPut
  \/ \E empty \in BOOLEAN : ProducerError(empty)
  \/ \E recent \in BOOLEAN : ProducerStreamEnd(recent)
  \/ ProducerDrain
  \/ ConsumerCheckAlive
  \/ ConsumerGetFirst
  \/ ConsumerGetNoWait
  \/ ConsumerSpawn
  \/ \E i \in 1..MaxTasks : WorkerSucceed(i)
  \/ \E i \in 1..MaxTasks : WorkerRaise(i)
  \/ \E write_ok \in BOOLEAN : ConsumerJoin(write_ok)
  \/ MainJoin

Spec == Init /\ [][Next]_vars

(***************************************************************************)
(* One run with no ending version against a server of the right chain, in  *)
(* which the only failures are transport errors, up to MaxErrorRun of them. *)
(***************************************************************************)
StartErr ==
  Start(NoneV, NoneV, TRUE, NoneV, ConfigChainId, MaxTasks, MaxVersion, {1})

NextErr ==
  \/ StartErr
  \/ \E len \in response_lens : ProducerReceive(len)
  \/ ProducerPut
  \/ \E empty \in BOOLEAN : ProducerErrorWithin(MaxErrorRun, empty)
  \/ ConsumerCheckAlive
  \/ ConsumerGetFirst
  \/ ConsumerGetNoWait
  \/ ConsumerSpawn
  \/ \E i \in 1..MaxTasks : WorkerSucceed(i)
  \/ ConsumerJoin(TRUE)

SpecErr == Init /\ [][NextErr]_vars

(***************************************************************************)
(* The upserts of the NFT marketplace v2 processor.  Each insert_nft_*     *)
(* call of a WorkerThread is one statement in one database transaction     *)
(* (Session.begin ... session.execute); the statements of concurrent       *)
(* WorkerThreads commit in any order.  The rows of a call come from one    *)
(* transaction and carry its version.                                      *)
(***************************************************************************)
\* The update of a conflicting row is applied whatever the versions.
UpsertWhere_Always(excluded_version, stored_version) == TRUE

\* 1069-1072 (1112-1115, 1156-1159, 1202-1205): the where clause of
\* on_conflict_do_update.
UpsertWhere(excluded_version, stored_version) ==
  excluded_version > stored_version

\* insert(...).values(rows).on_conflict_do_update(set_ = excluded, where):
\* a key with no row gets the row; a conflicting row is replaced by the
\* excluded one where the where clause holds.
on_conflict_do_update(table, pks, version, is_deleted) ==
  LET excluded == NftRow(version, is_deleted) IN
  /\ nft_count < MaxStatements
  /\ nft_count' = nft_count + 1
  /\ nft_rows' =
       [k \in NftKeys |->
          IF k[1] = table /\ k[2] \in pks
          THEN IF nft_rows[k] = NoRow THEN excluded
               ELSE IF UpsertWhere(version, nft_rows[k].last_transaction_version)
                    THEN excluded
                    ELSE nft_rows[k]
          ELSE nft_rows[k]]
  /\ nft_written' =
       [k \in NftKeys |->
          IF k[1] = table /\ k[2] \in pks
          THEN nft_written[k] \cup {excluded} ELSE nft_written[k]]
  /\ nft_last' = [table |-> table, pks |-> pks, row |-> excluded]
  /\ UNCHANGED <<procVars, store, cfgVars, prodVars, q, consVars, metricVars,
                 histVars, gsvVars, exVars>>

\* 1036-1076
insert_nft_listings(pks, version, is_deleted) ==
  on_conflict_do_update("current_nft_marketplace_listings", pks, version, is_deleted)

\* 1078-1119
insert_nft_token_offers(pks, version, is_deleted) ==
  on_conflict_do_update("current_nft_marketplace_token_offers", pks, version, is_deleted)

\* 1121-1163
insert_nft_collection_offers(pks, version, is_deleted) ==
  on_conflict_do_update("current_nft_marketplace_collection_offers", pks, version, is_deleted)

\* 1165-1209
insert_nft_auctions(pks, version, is_deleted) ==
  on_conflict_do_update("current_nft_marketplace_auctions", pks, version, is_deleted)

\* The non-empty lists of rows of one call (an empty list returns at once).
NftLists == (SUBSET (1..MaxKeys)) \ {{}}

NextNft ==
  \/ \E pks \in NftLists, v \in Versions, d \in BOOLEAN :
       insert_nft_listings(pks, v, d)
  \/ \E pks \in NftLists, v \in Versions, d \in BOOLEAN :
       insert_nft_token_offers(pks, v, d)
  \/ \E pks \in NftLists, v \in Versions, d \in BOOLEAN :
       insert_nft_collection_offers(pks, v, d)
  \/ \E pks \in NftLists, v \in Versions, d \in BOOLEAN :
       insert_nft_auctions(pks, v, d)

SpecNft == Init /\ [][NextNft]_vars

(***************************************************************************)
(* The example scripts.  A chain of versions 0..MaxVersion, of which some  *)
(* parse to rows; the script is started, killed and started again.         *)
(***************************************************************************)
\* processor.py 28-39, examples/processor.py 29-43,
\* example_event_processor/processor.py 18: the starting version.
\* src/python/processor.py has no default.
ExStart(script, override, default) ==
  /\ ex_status \in {"boot", "killed", "raised"}
  /\ ex_script \in {"none", script}
  /\ script = "processor" => default = NoneV
  /\ ex_runs < MaxRuns
  /\ ex_runs' = ex_runs + 1
  /\ ex_script' = script
  /\ ex_status' = "running"
  /\ ex_cur' = get_starting_version(override, ex_next, TRUE, default)
  /\ ex_override' = (override # NoneV)
  /\ ex_last' = ExStep("start", NoneV)
  /\ UNCHANGED <<procVars, store, cfgVars, prodVars, q, consVars, metricVars,
                 histVars, gsvVars, nftVars, ex_has_rows, ex_next, ex_rows>>

\* processor.py 89-100: always; examples/processor.py 93-114,
\* example_event_processor/processor.py 75-96: with the rows, and every
\* 1000 versions otherwise.
WritesCheckpoint(script, has_rows, version) ==
  \/ script = "processor"
  \/ has_rows
  \/ version % CheckpointEvery = 0

\* processor.py 89-100 (examples 93-114): one Session.begin block holds
\* session.add_all(parsed_objs) and the merge of next_version = version + 1.
\* The rows have a natural primary key: adding rows that are already stored
\* raises, the block is rolled back and the exception ends the script.
CommitTransaction(version) ==
  IF ex_has_rows[version] /\ version \in ex_rows
  THEN /\ ex_status' = "raised"
       /\ ex_last' = ExStep("conflict", version)
       /\ UNCHANGED <<ex_next, ex_rows, ex_cur>>
  ELSE /\ ex_rows' = IF ex_has_rows[version] THEN ex_rows \cup {version} ELSE ex_rows
       /\ ex_next' = IF WritesCheckpoint(ex_script, ex_has_rows[version], version)
                     THEN version + 1 ELSE ex_next
       /\ ex_cur' = ex_cur + 1
       /\ ex_last' = ExStep("commit", version)
       /\ ex_status' = ex_status

\* processor.py 76-111: the body of the loop over the transactions of a
\* response, for a transaction holding version.
ExTransaction(version) ==
  /\ ex_status = "running"
  /\ ex_cur <= MaxVersion
  /\ IF version # ex_cur
     THEN /\ ex_status' = "raised"
          /\ ex_last' = ExStep("mismatch", version)
          /\ UNCHANGED <<ex_next, ex_rows, ex_cur>>
     ELSE CommitTransaction(version)
  /\ UNCHANGED <<procVars, store, cfgVars, prodVars, q, consVars, metricVars,
                 histVars, gsvVars, nftVars, ex_script, ex_has_rows, ex_runs,
                 ex_override>>

\* The script is killed from outside.
ExCrash ==
  /\ ex_status = "running"
  /\ ex_status' = "killed"
  /\ ex_last' = ExStep("crash", NoneV)
  /\ UNCHANGED <<procVars, store, cfgVars, prodVars, q, consVars, metricVars,
                 histVars, gsvVars, nftVars, ex_script, ex_has_rows, ex_runs,
                 ex_next, ex_rows, ex_cur, ex_override>>

InitExample ==
  /\ InitRun
  /\ gsv_in = <<NoneV, NoneV, TRUE, NoneV>>
  /\ gsv_out = NoneV
  /\ InitNft
  /\ InitExTables
  /\ ex_has_rows \in [Versions -> BOOLEAN]

NextExample ==
  \/ \E script \in ExScripts, override \in {NoneV, 0}, default \in {NoneV, 1} :
       ExStart(script, override, default)
  \/ \E version \in Versions : ExTransaction(version)
  \/ ExCrash

SpecExample == InitExample /\ [][NextExample]_vars

(***************************************************************************)
(* One run with no ending version against a server that sends responses in *)
(* any order of versions, up to MaxUnordered of them, with no failures.     *)
(***************************************************************************)
NextUnordered ==
  \/ StartErr
  \/ \E first, last \in Versions : ProducerReceiveAny(first, last)
  \/ ProducerPut
  \/ ConsumerCheckAlive
  \/ ConsumerGetFirst
  \/ ConsumerGetNoWait
  \/ ConsumerSpawn
  \/ \E i \in 1..MaxTasks : WorkerSucceed(i)
  \/ ConsumerJoin(TRUE)

SpecUnordered == Init /\ [][NextUnordered]_vars

(***************************************************************************)
(* get_starting_version on every combination of its inputs.                *)
(***************************************************************************)
InitGsv ==
  /\ InitRun
  /\ gsv_in \in OptVersion \X OptVersion \X BOOLEAN \X OptVersion
  /\ gsv_out = NoneV
  /\ InitNft
  /\ InitEx

ApplyGsv ==
  /\ gsv_out = NoneV
  /\ gsv_out' = get_starting_version(gsv_in[1], gsv_in[2], gsv_in[3], gsv_in[4])
  /\ UNCHANGED <<procVars, store, cfgVars, prodVars, q, consVars, metricVars,
                 histVars, gsv_in, nftVars, exVars>>

NextGsv == ApplyGsv

SpecGsv == InitGsv /\ [][NextGsv]_vars

(***************************************************************************)
(* Properties.                                                             *)
(***************************************************************************)
Last(log) == log[Len(log)]

\* Each batch of log starts right after the one before it ends.
Contiguous(log) ==
  \A i \in 1..(Len(log) - 1) : log[i + 1].start = log[i].end + 1

\* Each batch of log lies wholly above the one before it.
Ascending(log) ==
  \A i \in 1..(Len(log) - 1) : log[i + 1].start > log[i].end

\* A thread of the round holds an exception.
SomeThreadFailed ==
  \E i \in DOMAIN processor_threads : processor_threads[i] = "exc"

\* The batches the consumer has taken from the queue and not yet handed to
\* a WorkerThread.
InHand == IF cpc \in {"get", "spawn"} THEN transaction_batches ELSE <<>>

\* C1: the stored next_version never decreases, whatever checkpoint writes
\* are made: a write of a value that is not greater than the stored one
\* leaves the row as it is (also the first write of a run started from a
\* starting-version override below the stored value).
C1_CheckpointNeverDecreases == [][store' >= store]_vars

\* C2: once a WorkerThread of the round holds an exception, the stored
\* next_version keeps the value the previous round left, and the round is
\* only left by the process ending with exit code 1 (or being killed from
\* outside); the other threads of the round may all have succeeded.
C2_WorkerExceptionAbortsRound ==
  [][(status = "running" /\ cpc = "join" /\ SomeThreadFailed)
       => /\ store' = store
          /\ \/ status' = "running" /\ cpc' = "join" /\ SomeThreadFailed'
             \/ status' \in {"exit1", "killed"}]_vars

\* C2 witness: a round of two threads, one succeeded and one failed, ended
\* the process with exit code 1 after an earlier round wrote the checkpoint.
C2_Witness ==
  /\ status = "exit1"
  /\ cpc = "join"
  /\ Len(processor_threads) = 2
  /\ processor_threads[1] = "ok"
  /\ processor_threads[2] = "exc"
  /\ store # NoneV
  /\ store = transaction_batches[1].start

\* C3: no batch whose chain_id differs from the configured chain id is
\* handed to a Processor.
C3_NoForeignChainDispatched ==
  \A i \in DOMAIN dispatch_log : dispatch_log[i].chain = ConfigChainId

\* C4: for a stream of contiguous batches, once every batch put on the
\* queue has been consumed (the queue is empty and the consumer is between
\* rounds), the stored next_version is the end version of the last batch + 1.
C4_FinalCheckpoint ==
  (/\ status \in {"running", "exit0"}
   /\ put_log # <<>>
   /\ Contiguous(put_log)
   /\ Len(q) = 0
   /\ cpc = "top")
  => store = Last(put_log).end + 1

\* C4 witness: three contiguous batches, put around a reconnection, have
\* all been consumed in rounds of up to two tasks.
C4_Witness ==
  /\ status = "running"
  /\ Len(put_log) = 3
  /\ Contiguous(put_log)
  /\ num_concurrent_processing_tasks = 2
  /\ last_reconnection_time
  /\ Len(q) = 0
  /\ cpc = "top"
  /\ store = Last(put_log).end + 1

\* C5: every batch put on the queue is taken from it once and handed to one
\* WorkerThread, none is dropped and none is dispatched twice: the batches
\* put are, in order, those dispatched, those the consumer holds and those
\* still queued; batches are dispatched in ascending version order; and for
\* the stream [0,999], [1000,1999], [2000,2999] with two tasks the
\* checkpoint ends at 3000.
C5_ExactlyOnceInOrder ==
  /\ status \in {"running", "exit0"} =>
       put_log = dispatch_log \o InHand \o q
  /\ Ascending(dispatch_log)
  /\ (/\ status = "running"
      /\ put_log = <<Batch(0, 999, ConfigChainId), Batch(1000, 1999, ConfigChainId),
                     Batch(2000, 2999, ConfigChainId)>>
      /\ num_concurrent_processing_tasks = 2
      /\ Len(q) = 0
      /\ cpc = "top")
     => store = 3000

\* C5 witness: the scenario's three batches have been dispatched and
\* processed, and the checkpoint is 3000.
C5_Witness ==
  /\ status = "running"
  /\ dispatch_log = <<Batch(0, 999, ConfigChainId), Batch(1000, 1999, ConfigChainId),
                      Batch(2000, 2999, ConfigChainId)>>
  /\ put_log = dispatch_log
  /\ num_concurrent_processing_tasks = 2
  /\ processed_counter = 3000
  /\ cpc = "top"
  /\ store = 3000

\* A process that was started again after a crash with no starting-version
\* override, on a table that holds the checkpoint row.
RestartedWithoutOverride ==
  /\ runs >= 2
  /\ status \in {"running", "exit0", "exit1"}
  /\ starting_version_backfill = NoneV
  /\ start_store # NoneV

ReceiveStep == response = NoBatch /\ response' # NoBatch

\* C7 as stated: the queue never holds more than FETCHER_QUEUE_SIZE items,
\* and while it is full the producer takes no further response from the
\* stream.
C7_FullQueueStopsFetching ==
  /\ [](Len(q) <= FETCHER_QUEUE_SIZE)
  /\ [][(status = "running" /\ Len(q) = FETCHER_QUEUE_SIZE) => ~ReceiveStep]_vars

\* C7 as amended: the queue never holds more than FETCHER_QUEUE_SIZE items,
\* and a producer that holds a response while the queue is full is blocked
\* in put: nothing of the producer changes (no further response is taken)
\* until the consumer has taken an item.
C7_PutBlocksOnFullQueue ==
  /\ [](Len(q) <= FETCHER_QUEUE_SIZE)
  /\ [][(/\ status = "running"
         /\ ppc = "put"
         /\ Len(q) = FETCHER_QUEUE_SIZE
         /\ status' # "killed")
          => UNCHANGED prodVars]_vars

\* C7 witness: the queue is full and the producer holds one more response.
C7_Witness ==
  /\ status = "running"
  /\ Len(q) = FETCHER_QUEUE_SIZE
  /\ ppc = "put"
  /\ response # NoBatch

\* The producer handles a transport error.
ErrorStep == err_count' = err_count + 1

\* C8 as stated: a transport error after the producer has received
\* transactions up to version v reopens the stream at v + 1.
C8_ReconnectsAtNextVersion ==
  [][(ErrorStep /\ last_received_end # NoneV)
       => stream_start' = last_received_end + 1]_vars

\* C8 as amended: a transport error after the producer has received
\* transactions up to version v (the cursor being v + 1) reopens the stream
\* at v + 2, the cursor advanced by one.
C8_ReconnectsPastNextVersion ==
  [][(/\ ErrorStep
      /\ last_received_end # NoneV
      /\ next_version_to_fetch = last_received_end + 1)
       => /\ stream_start' = last_received_end + 2
          /\ stream_next' = last_received_end + 2
          /\ next_version_to_fetch' = last_received_end + 2]_vars

\* C8 witness: after a response ending at version 0 and a transport error
\* the stream is open at version 2.
C8_Witness ==
  /\ status = "running"
  /\ err_count = 1
  /\ last_received_end = 0
  /\ stream_start = 2
  /\ next_version_to_fetch = 2

\* C9: no transaction version is put on the queue more than once: every
\* batch put lies wholly above the batches put before it.
C9_NoVersionPutTwice == Ascending(put_log)

\* C9 witness: two batches were put with a transport error and a
\* reconnection after a stream end in between.
C9_Witness ==
  /\ Len(put_log) >= 2
  /\ err_count > 0
  /\ last_reconnection_time
  /\ put_log[2].start > put_log[1].end + 1

\* C10: get_starting_version returns the backfill override when it is set,
\* otherwise the stored next_version when the row exists and could be read,
\* otherwise the configured default when it is set, otherwise 0.
C10_StartingVersionPriority ==
  gsv_out # NoneV =>
    gsv_out = (IF gsv_in[1] # NoneV THEN gsv_in[1]
               ELSE IF gsv_in[3] /\ gsv_in[2] # NoneV THEN gsv_in[2]
               ELSE IF gsv_in[4] # NoneV THEN gsv_in[4]
               ELSE 0)

\* C10 witness: a backfill override of 0 wins over a stored value and a
\* default.
C10_Witness ==
  /\ gsv_out = 0
  /\ gsv_in[1] = 0
  /\ gsv_in[2] = 2
  /\ gsv_in[3]
  /\ gsv_in[4] = 1

\* The producer handles the end of the stream (StopIteration) in one of its
\* three ways.
EndReachedStep ==
  producer_event'.kind = "end_reached" /\ producer_event.kind # "end_reached"
ReconnectStep ==
  producer_event'.kind = "reconnect" /\
  reconnection_retries' = reconnection_retries + 1
FatalStep == producer_event'.kind = "fatal" /\ producer_event.kind # "fatal"
StreamEndStep == EndReachedStep \/ ReconnectStep \/ FatalStep

C12_NoFetchPastEndingVersion ==
  /\ [](ppc = "done" => Len(q) = 0)
  /\ [][(/\ status = "running"
         /\ ending_version # NoneV
         /\ next_version_to_fetch > ending_version) => ~ReceiveStep]_vars

C14_TransportErrorsBounded ==
  (status = "running" /\ last_received_end = NoneV)
    => err_count <= RECONNECTION_MAX_RETRIES

\* C15: once the producer thread has terminated the consumer observes it
\* and exits the process with code 0; it is never left in the blocking
\* q.get() on the empty queue, which nothing will fill any more and which
\* it therefore never leaves.
C15_ConsumerNotBlockedAfterProducerEnds ==
  ~(/\ status = "running"
    /\ ppc = "done"
    /\ cpc = "get"
    /\ task_index = 0
    /\ Len(q) = 0)

\* C16: whenever the process has exited with code 0 the queue is empty,
\* every batch the producer put on the queue has been handed to a
\* WorkerThread, none of which holds an exception, and the stored
\* next_version is the end version of the last batch put + 1.
C16_CleanExitLosesNothing ==
  status = "exit0" =>
    /\ Len(q) = 0
    /\ dispatch_log = put_log
    /\ ~SomeThreadFailed
    /\ put_log # <<>> => store = Last(put_log).end + 1

\* C17: once the checkpoint write has raised, the process is on its way
\* down: the producer does not keep running (it takes no further step), no
\* further batch is handed to a WorkerThread and the stored checkpoint
\* stays at the last value written.
C17_CheckpointFailureStopsProcess ==
  [][(status = "running" /\ cpc = "dead" /\ status' # "killed")
       => UNCHANGED <<prodVars, q, put_log, dispatch_log, store>>]_vars

\* C18: every batch handed to a WorkerThread in a round starts above the
\* end of every batch handed over in the rounds before it, whatever stream
\* ends, transport errors and reconnections happened in between.
C18_RoundsAscend ==
  [][\A i \in (Len(dispatch_log) + 1)..Len(dispatch_log') :
       \A j \in 1..Len(dispatch_log) :
         dispatch_log'[i].start > dispatch_log[j].end]_vars

\* C18 witness: with one task per round, two rounds were dispatched with a
\* transport error and a reconnection after a stream end behind them, the
\* second round above the first.
C18_Witness ==
  /\ status = "running"
  /\ num_concurrent_processing_tasks = 1
  /\ Len(dispatch_log) = 2
  /\ err_count > 0
  /\ last_reconnection_time
  /\ dispatch_log[2].start > dispatch_log[1].end

\* The batches of the run whose Processor call has completed without an
\* exception: those of the rounds before the current one, and those of the
\* current round whose thread has succeeded.
ProcessedBatches ==
  {dispatch_log[i] : i \in 1..(Len(dispatch_log) - Len(processor_threads))}
    \cup {transaction_batches[i] :
            i \in {j \in DOMAIN processor_threads : processor_threads[j] = "ok"}}

\* Version v lies in a batch that has been processed.
Processed(v) == \E b \in ProcessedBatches : b.start <= v /\ v <= b.end

\* C19: the checkpoint never passes a version that was not processed: in a
\* run that began with no checkpoint row, every version from the run's
\* starting version up to the stored next_version (excluded) lies in a batch
\* whose Processor call completed without exception.
C19_CheckpointCoversOnlyProcessed ==
  (/\ status \in {"running", "exit0", "exit1"}
   /\ start_store = NoneV
   /\ store # NoneV)
    => \A v \in starting_version..(store - 1) : Processed(v)

\* Some batch put on the queue, or the response in hand, holds version v.
Fetched(v) ==
  \/ \E i \in DOMAIN put_log : put_log[i].start <= v /\ v <= put_log[i].end
  \/ response # NoBatch /\ response.start <= v /\ v <= response.end

\* The versions from the run's start to the last one received so far.
ReceivedRange ==
  IF last_received_end = NoneV THEN {}
  ELSE starting_version..last_received_end

\* A version at a cursor the error handler stepped over is never fetched,
\* and no other version of the range received so far is missing.
SkipsExactlyTheCursors ==
  /\ \A v \in skipped : ~Fetched(v)
  /\ \A v \in ReceivedRange \ skipped : Fetched(v)

DequeueStep == status = "running" /\ status' = "running" /\ Len(q') < Len(q)

\* The consumer hands the round's batches to WorkerThreads.
SpawnStep == cpc = "spawn" /\ cpc' = "join"

\* C21: every round dispatches at least 1 and at most
\* num_concurrent_processing_tasks batches, taken from the queue in FIFO
\* order (each dequeue takes the head of the queue and appends it to the
\* round), and the consumer never waits for the 2nd..Nth item of a round:
\* its get is possible whether or not the queue holds an item.
C21_RoundSizeAndFifo ==
  /\ []((status = "running" /\ cpc = "get" /\ task_index > 0)
          => ENABLED ConsumerGetNoWait)
  /\ [][/\ SpawnStep =>
             /\ Len(transaction_batches) >= 1
             /\ Len(transaction_batches) <= num_concurrent_processing_tasks
             /\ dispatch_log' = dispatch_log \o transaction_batches
        /\ DequeueStep =>
             /\ q' = Tail(q)
             /\ transaction_batches' = Append(transaction_batches, Head(q))]_vars

\* C21 witness: with two tasks configured, a round of one batch is being
\* processed: the second get found the queue empty and did not wait.
C21_Witness ==
  /\ status = "running"
  /\ cpc = "join"
  /\ num_concurrent_processing_tasks = 2
  /\ task_index = 2
  /\ Len(transaction_batches) = 1
  /\ Len(processor_threads) = 1

\* The version the consumer expects the next batch to start at (361, 390).
ExpectedStart ==
  IF transaction_batches = <<>> THEN batch_start_version
  ELSE Last(transaction_batches).end + 1

\* The round collected holds a gap, inside it or against the round before.
GapRound ==
  /\ cpc \in {"spawn", "join"}
  /\ transaction_batches # <<>>
  /\ \/ transaction_batches[1].start # batch_start_version
     \/ ~Contiguous(transaction_batches)

AliveThreads == {i \in DOMAIN processor_threads : processor_threads[i] = "running"}

\* The consumer's exception check ends the process (413).
ConsumerExitStep ==
  status = "running" /\ status' = "exit1" /\ UNCHANGED <<prodVars, histVars>>

\* C23: at most num_concurrent_processing_tasks WorkerThreads are alive at
\* any time, one per collected batch, and all threads of a round have
\* terminated before the round's exception check and checkpoint write and
\* before an item of the next round is dequeued.
C23_WorkersJoinedBeforeRoundEnds ==
  /\ [](status = "running" =>
          /\ Cardinality(AliveThreads) <= num_concurrent_processing_tasks
          /\ processor_threads # <<>> =>
               Len(processor_threads) = Len(transaction_batches)
          /\ AliveThreads # {} => cpc = "join")
  /\ [][(\/ ConsumerExitStep
         \/ status = "running" /\ store' # store
         \/ status = "running" /\ cpc = "join" /\ cpc' = "dead"
         \/ DequeueStep) => AliveThreads = {}]_vars

\* C23 witness: a round of two batches has its two WorkerThreads alive.
C23_Witness ==
  /\ status = "running"
  /\ cpc = "join"
  /\ num_concurrent_processing_tasks = 2
  /\ Len(transaction_batches) = 2
  /\ AliveThreads = {1, 2}

RECURSIVE MaxEnd(_)
\* The greatest end version among batches.
MaxEnd(batches) ==
  IF Len(batches) = 1 THEN batches[1].end
  ELSE LET m == MaxEnd(Tail(batches)) IN
       IF batches[1].end > m THEN batches[1].end ELSE m

RECURSIVE MinStart(_)
\* The smallest start version among batches.
MinStart(batches) ==
  IF Len(batches) = 1 THEN batches[1].start
  ELSE LET m == MinStart(Tail(batches)) IN
       IF batches[1].start < m THEN batches[1].start ELSE m

\* A round completes: the checkpoint is written and the consumer returns to
\* the top of its loop.
RoundDoneStep ==
  status = "running" /\ cpc = "join" /\ cpc' = "top" /\ status' = "running"

\* C24: the round's range is taken from the results sorted by
\* start_version: the checkpoint written for a round is the greatest end
\* version among its results + 1 and the round's start is the smallest
\* start version (the counter grows by greatest end - smallest start + 1),
\* also when the batches were dequeued out of version order.
C24_RoundRangeFromSortedResults ==
  [][RoundDoneStep =>
       /\ store' = MaxEnd(transaction_batches) + 1
       /\ batch_start_version' = MaxEnd(transaction_batches) + 1
       /\ processed_counter' = processed_counter
            + (MaxEnd(transaction_batches) - MinStart(transaction_batches) + 1)]_vars

\* C25: the checkpoint row is written only by the consumer thread, once per
\* round that completes without a WorkerThread exception: every step that
\* changes the stored next_version is the consumer's step from the join to
\* the top of its loop with every thread joined and none failed, it leaves
\* the producer's variables and the queue alone, and every completed round
\* makes the write; the producer and the WorkerThreads never write it.
C25_OnlyConsumerWritesCheckpoint ==
  [][/\ store' # store =>
          /\ status = "running"
          /\ cpc = "join" /\ cpc' = "top"
          /\ AliveThreads = {}
          /\ ~SomeThreadFailed
          /\ UNCHANGED <<prodVars, q>>
     /\ RoundDoneStep =>
          /\ ~SomeThreadFailed
          /\ store' = Last(transaction_batches).end + 1]_vars

C25_Witness ==
  /\ status = "running"
  /\ cpc = "top"
  /\ Len(dispatch_log) = 1
  /\ store = dispatch_log[1].end + 1
  /\ store # start_store
  /\ ppc = "put"

\* 532-599: a step of WorkerThread i: its state changes within a round.
WorkerStep(i) ==
  /\ i \in DOMAIN processor_threads
  /\ Len(processor_threads') = Len(processor_threads)
  /\ processor_threads'[i] # processor_threads[i]

\* C26: a WorkerThread calls process_transactions once and never retries:
\* its only step is from running to returned or to raised; a raised
\* exception is kept on the thread and does not leave it (the process keeps
\* running and the consumer stays at its join), so that after the join the
\* thread has no exception exactly when the call returned; the step touches
\* neither the queue nor the checkpoint, the other threads or the round.
C26_WorkerRunsOnceAndKeepsException ==
  [][\A i \in 1..MaxTasks :
       WorkerStep(i) =>
         /\ processor_threads[i] = "running"
         /\ processor_threads'[i] \in {"ok", "exc"}
         /\ \A j \in DOMAIN processor_threads :
              j # i => processor_threads'[j] = processor_threads[j]
         /\ status = "running" /\ status' = "running"
         /\ cpc = "join" /\ cpc' = "join"
         /\ UNCHANGED <<q, store, prodVars, transaction_batches,
                        batch_start_version, metricVars>>]_vars

C26_Witness ==
  /\ status = "running"
  /\ cpc = "join"
  /\ processor_threads = <<"exc", "ok">>
  /\ Len(q) = 0

RECURSIVE NumTransactions(_)
\* 393-399: the number of transactions handed to the WorkerThreads of a
\* round, a batch holding the versions start..end.
NumTransactions(batches) ==
  IF batches = <<>> THEN 0
  ELSE (Head(batches).end - Head(batches).start + 1) + NumTransactions(Tail(batches))

\* C27: after every successfully completed round the processed-transactions
\* counter has grown by exactly the number of transactions passed to the
\* processors in that round and the latest-processed-version gauge equals
\* the stored next_version - 1, also for a round whose batches have a
\* version gap between them.
C27_CounterCountsTransactions ==
  [][RoundDoneStep =>
       /\ processed_counter' - processed_counter = NumTransactions(transaction_batches)
       /\ latest_gauge' = store' - 1]_vars

\* 134-142, 212-220, 292-300: the producer has called get_grpc_stream in
\* this process; stream_start is the starting version of its latest call.
StreamRequested == status \notin {"boot", "killed"}

\* C28: with an ending version E configured the producer never opens a
\* stream whose starting version is greater than E: every call of
\* get_grpc_stream (the first, after a transport error, after a stream end)
\* requests transactions_count = E - start + 1 >= 1.
C28_StreamNeverStartsPastEnding ==
  (StreamRequested /\ ending_version # NoneV)
    => /\ stream_start <= ending_version
       /\ TransactionsCount(stream_start, ending_version)
            = ending_version - stream_start + 1
       /\ TransactionsCount(stream_start, ending_version) >= 1

\* The greatest last_transaction_version among rows.
MaxWritten(rows) ==
  CHOOSE v \in {r.last_transaction_version : r \in rows} :
    \A r \in rows : r.last_transaction_version <= v

\* C29: for each primary key of the current listings, token offers,
\* collection offers and auctions tables the stored
\* last_transaction_version never decreases; a statement whose version is
\* not strictly greater than the stored one leaves the row unchanged; and
\* after any sequence of commits the row holds values that were written
\* with the greatest last_transaction_version.
C29_CurrentRowsKeepGreatestVersion ==
  /\ [](\A k \in NftKeys :
          nft_written[k] # {} =>
            /\ nft_rows[k] \in nft_written[k]
            /\ nft_rows[k].last_transaction_version = MaxWritten(nft_written[k]))
  /\ [][\A k \in NftKeys :
          /\ nft_rows'[k].last_transaction_version
               >= nft_rows[k].last_transaction_version
          /\ (/\ nft_rows[k] # NoRow
              /\ nft_last'.row.last_transaction_version
                   <= nft_rows[k].last_transaction_version)
               => nft_rows'[k] = nft_rows[k]]_vars

\* A listing written at version 2 and not deleted has since been offered
\* version 2 again, deleted, and version 0.
C29_Witness ==
  /\ nft_count = 3
  /\ nft_rows[<<"current_nft_marketplace_listings", 1>>] = NftRow(2, FALSE)
  /\ nft_written[<<"current_nft_marketplace_listings", 1>>]
       = {NftRow(2, FALSE), NftRow(2, TRUE), NftRow(0, TRUE)}
  /\ nft_last.row = NftRow(0, TRUE)

\* C30: in the single-threaded example processors the rows parsed from a
\* transaction and the checkpoint update to its version + 1 are committed in
\* one database transaction; a transaction whose version is not the
\* expected one aborts the run before anything is written for it; hence, at
\* whatever point the script is killed, every transaction whose rows are
\* committed has version < stored next_version, and a run started from the
\* checkpoint never comes to insert rows that are already committed.
C30_RowsBelowCheckpoint ==
  /\ [](\A v \in ex_rows : v < ex_next)
  /\ [][/\ \A v \in ex_rows' \ ex_rows : ex_next' = v + 1
        /\ ex_last'.kind = "mismatch" =>
             (ex_status' = "raised" /\ UNCHANGED <<ex_next, ex_rows>>)
        /\ (ex_last'.kind = "conflict" /\ ex_last.kind # "conflict")
             => ex_override]_vars

====
